---- MODULE Spec2Model ----
\* ogspy: the concurrent cores of main.go.
\*   inspect  - bounded worker pool over a URL list (newInspectCmd)
\*   monitor  - tick -> asynchronous fetch -> diff -> render loop (newMonitorCmd)
\*   validate - fetch, parse, optional semantic warnings, required tags
\*              (newValidateCmd)
\* together with the pure helpers they call (parseOG, diffMaps, printMissing),
\* which are also called on their own, on arguments drawn from bounded sets.
\*
\* Strings that the code takes apart (attribute identifiers, tag names) are
\* sequences of one-character strings, so that HasPrefix and TrimPrefix are
\* computed; strings that the code only compares (URLs, tag values, error
\* texts) are TLA+ strings.  A Go map is a function whose DOMAIN is the key
\* set; the nil map and the empty map are both the empty function.
EXTENDS Integers, Sequences, FiniteSets, TLC

\* --------------------------------------------------------------------------
\* Bounds
\* --------------------------------------------------------------------------
MaxUrls == 3
MaxCPU == 2
MaxTicks == 3
\* the number of lines on STDIN
MaxLines == 2
\* the number of keys of a map handed to diffMaps
MaxKeys == 2
\* the number of meta elements of a document handed to parseOG
MaxElems == 2

\* --------------------------------------------------------------------------
\* Strings and maps
\* --------------------------------------------------------------------------
OGPrefix == <<"o", "g", ":">>

HasPrefix(s, p) == Len(s) >= Len(p) /\ SubSeq(s, 1, Len(p)) = p

TrimPrefix(s, p) == IF HasPrefix(s, p) THEN SubSeq(s, Len(p) + 1, Len(s)) ELSE s

EmptyMap == <<>>

\* m[k] of a Go map[string]string: the zero value "" for an absent key
MapGet(m, k) == IF k \in DOMAIN m THEN m[k] ELSE ""

\* m[k] = v of a Go map
MapPut(m, k, v) == [x \in DOMAIN m \cup {k} |-> IF x = k THEN v ELSE m[x]]

\* --------------------------------------------------------------------------
\* Tag names
\* --------------------------------------------------------------------------
T_title == <<"t", "i", "t", "l", "e">>
T_type == <<"t", "y", "p", "e">>
T_image == <<"i", "m", "a", "g", "e">>
T_url == <<"u", "r", "l">>
T_description == <<"d", "e", "s", "c", "r", "i", "p", "t", "i", "o", "n">>
T_site_name == <<"s", "i", "t", "e", "_", "n", "a", "m", "e">>
T_locale == <<"l", "o", "c", "a", "l", "e">>
T_video == <<"v", "i", "d", "e", "o">>
T_audio == <<"a", "u", "d", "i", "o">>
T_article_author == <<"a", "r", "t", "i", "c", "l", "e", ":", "a", "u", "t", "h", "o", "r">>
T_article_publisher == <<"a", "r", "t", "i", "c", "l", "e", ":", "p", "u", "b", "l", "i", "s", "h", "e", "r">>
T_article_section == <<"a", "r", "t", "i", "c", "l", "e", ":", "s", "e", "c", "t", "i", "o", "n">>
T_article_tag == <<"a", "r", "t", "i", "c", "l", "e", ":", "t", "a", "g">>

essentialTags == <<T_title, T_type, T_image, T_url, T_description>>

recommendedTags ==
  essentialTags \o <<T_site_name, T_locale, T_video, T_audio, T_article_author,
                     T_article_publisher, T_article_section, T_article_tag>>

\* --------------------------------------------------------------------------
\* parseOG: the document is the sequence of its meta elements in document
\* order; an element is a function from the attributes it carries to their
\* values ("property" and "name" are character sequences, "content" a string).
\* --------------------------------------------------------------------------
\* variant: a key that is already in the map is not written again
parseElemFirstWins(og, s) ==
  LET og1 == IF "property" \in DOMAIN s /\ HasPrefix(s["property"], OGPrefix)
                  /\ "content" \in DOMAIN s
                  /\ TrimPrefix(s["property"], OGPrefix) \notin DOMAIN og
             THEN MapPut(og, TrimPrefix(s["property"], OGPrefix), s["content"])
             ELSE og
  IN  IF "name" \in DOMAIN s /\ HasPrefix(s["name"], OGPrefix)
           /\ "content" \in DOMAIN s
           /\ TrimPrefix(s["name"], OGPrefix) \notin DOMAIN og1
      THEN MapPut(og1, TrimPrefix(s["name"], OGPrefix), s["content"])
      ELSE og1

\* variant: an empty content attribute counts as no content attribute
parseElemNonEmptyContent(og, s) ==
  LET og1 == IF "property" \in DOMAIN s /\ HasPrefix(s["property"], OGPrefix)
                  /\ "content" \in DOMAIN s /\ s["content"] # ""
             THEN MapPut(og, TrimPrefix(s["property"], OGPrefix), s["content"])
             ELSE og
  IN  IF "name" \in DOMAIN s /\ HasPrefix(s["name"], OGPrefix)
           /\ "content" \in DOMAIN s /\ s["content"] # ""
      THEN MapPut(og1, TrimPrefix(s["name"], OGPrefix), s["content"])
      ELSE og1

\* the callback of doc.Find("meta").Each, applied to one element
parseElem(og, s) ==
  LET og1 == IF "property" \in DOMAIN s /\ HasPrefix(s["property"], OGPrefix)
                  /\ "content" \in DOMAIN s
             THEN MapPut(og, TrimPrefix(s["property"], OGPrefix), s["content"])
             ELSE og
  IN  IF "name" \in DOMAIN s /\ HasPrefix(s["name"], OGPrefix)
           /\ "content" \in DOMAIN s
      THEN MapPut(og1, TrimPrefix(s["name"], OGPrefix), s["content"])
      ELSE og1

RECURSIVE parseFrom(_, _, _)
parseFrom(doc, i, og) ==
  IF i > Len(doc) THEN og ELSE parseFrom(doc, i + 1, parseElem(og, doc[i]))

parseOG(html) == parseFrom(html, 1, EmptyMap)

\* --------------------------------------------------------------------------
\* diffMaps
\* --------------------------------------------------------------------------
\* variant: a key that is absent differs from a key that is present and empty
diffMapsPresence(old, new) ==
  LET keys == DOMAIN old \cup DOMAIN new
      differing == {k \in keys : \/ MapGet(old, k) # MapGet(new, k)
                                 \/ (k \in DOMAIN old) # (k \in DOMAIN new)}
  IN  [k \in differing |-> <<MapGet(old, k), MapGet(new, k)>>]

\* variant: only the keys of `old` are visited
diffMapsOldKeys(old, new) ==
  LET keys == DOMAIN old
      differing == {k \in keys : MapGet(old, k) # MapGet(new, k)}
  IN  [k \in differing |-> <<MapGet(old, k), MapGet(new, k)>>]

\* variant: only the keys of `new` are visited
diffMapsNewKeys(old, new) ==
  LET keys == DOMAIN new
      differing == {k \in keys : MapGet(old, k) # MapGet(new, k)}
  IN  [k \in differing |-> <<MapGet(old, k), MapGet(new, k)>>]

\* variant: every visited key is reported, without the comparison
diffMapsAllKeys(old, new) ==
  LET keys == DOMAIN old \cup DOMAIN new
  IN  [k \in keys |-> <<MapGet(old, k), MapGet(new, k)>>]

\* keys: the union of both key sets (lines 227-232); an entry for each key
\* whose two values, read with "" for an absent key, differ (lines 234-241)
diffMaps(old, new) ==
  LET keys == DOMAIN old \cup DOMAIN new
      differing == {k \in keys : MapGet(old, k) # MapGet(new, k)}
  IN  [k \in differing |-> <<MapGet(old, k), MapGet(new, k)>>]

\* --------------------------------------------------------------------------
\* printMissing: the tags it lists, and the code it returns
\* --------------------------------------------------------------------------
missingTags(og, essentialsOnly) ==
  LET required == IF essentialsOnly THEN essentialTags ELSE recommendedTags
  IN  SelectSeq(required, LAMBDA k : MapGet(og, k) = "")

printMissing(og, essentialsOnly) ==
  IF Len(missingTags(og, essentialsOnly)) > 0 THEN 1 ELSE 0

\* --------------------------------------------------------------------------
\* fetchHTML: what one fetch can end with.  The pages served are a small set of
\* documents; a fetch fails with a transport error (a timeout included) or
\* with a status >= 400.
\* --------------------------------------------------------------------------
DocA == << [property |-> OGPrefix \o T_title, content |-> "A"] >>

DocB == << [property |-> OGPrefix \o T_title, content |-> "B"],
           [name |-> OGPrefix \o T_image, content |-> "X"],
           [property |-> OGPrefix \o T_url] >>

DocNone == <<>>

\* DocA with one more tag, whose value is empty
DocE == << [property |-> OGPrefix \o T_title, content |-> "A"],
           [property |-> OGPrefix \o T_type, content |-> ""] >>

Pages == {DocA, DocB, DocNone, DocE}

\* the pages a URL can serve: u1 and u2 are static pages, any other URL (the
\* monitored one) changes between fetches
Serve(u) == IF u = "u1" THEN {DocA} ELSE IF u = "u2" THEN {DocB} ELSE Pages

FetchErrors == {"transport", "HTTP 404"}

\* the errors a fetch of a URL can end with: u1's host is unreachable at times,
\* u2 answers 404 at times, any other URL (the monitored one) fails either way
Fail(u) == IF u = "u1" THEN {"transport"} ELSE IF u = "u2" THEN {"HTTP 404"} ELSE FetchErrors

URLs == {"u1", "u2"}

NoResult == [url |-> "", og |-> EmptyMap, err |-> ""]

\* --------------------------------------------------------------------------
\* State
\* --------------------------------------------------------------------------
VARIABLES
  \* ---- inspect ----
  args,           \* the command-line arguments of inspect
  stdin,          \* the lines on STDIN, each a sequence of spaces and URL texts
  urls,           \* the URLs collected from the arguments and from STDIN
  workers,        \* the --workers flag, then the number of workers started
  jsonOut,        \* the --json flag
  mainPc,         \* RunE: "start", "recv", "finish", "returned"
  fed,            \* feeder: how many URLs it has handed to workers
  tasksClosed,    \* close(tasks) has run
  wpc,            \* worker -> "recv", "fetch", "send", "done"
  wres,           \* worker -> the URL it holds / the result it is about to send
  wg,             \* the WaitGroup counter
  resultsClosed,  \* close(results) has run
  received,       \* the results the aggregator has received, in order
  exitCode,
  aggregated,     \* url -> snapshot, the JSON aggregate
  out,            \* what was written to the output, in order
  outcome,        \* what RunE returned: "", "ok", "no URLs", "failed", "encode error"
  panicked,       \* a goroutine panicked: the process is dead
  \* ---- monitor ----
  mode,           \* the output mode from --json-diff / --unified
  ctxDone,        \* ctx is cancelled: ctx.Done() is ready
  tickPending,    \* ticker.C holds a tick
  ticks,          \* fetch tasks dispatched so far
  ctlPc,          \* control goroutine: "select", "returned"
  diffClosed,     \* close(diffChan) has run
  task,           \* fetch task -> [pc, p, og, err]; pc: "fetch", "send", "done", "failed"
  renderPc,       \* render loop: "idle", "recv", "process", "returned"
  ev,             \* the event the render loop is processing
  prev,           \* the render loop's baseline
  rendered,       \* what the render loop wrote, in order
  processed,      \* the events the render loop has processed, each with the baseline it was
                  \* diffed against and the diff computed
  exited,         \* the process has exited
  \* ---- single calls: diffMaps, parseOG, validate ----
  call            \* the call in progress: its arguments, its position, its result

inspectVars ==
  <<args, stdin, urls, workers, jsonOut, mainPc, fed, tasksClosed, wpc, wres, wg,
    resultsClosed, received, exitCode, aggregated, out, outcome>>

monitorVars ==
  <<mode, ctxDone, tickPending, ticks, ctlPc, diffClosed, task, renderPc, ev, prev,
    rendered, processed, exited>>

pureVars == <<call>>

vars == <<inspectVars, monitorVars, pureVars, panicked>>

\* no single call is in progress
NoCall == [fn |-> "none"]

\* the monitor's variables while inspect runs
MonitorIdle ==
  /\ mode = "colour"
  /\ ctxDone = FALSE
  /\ tickPending = FALSE
  /\ ticks = 0
  /\ ctlPc = "select"
  /\ diffClosed = FALSE
  /\ task = <<>>
  /\ renderPc = "idle"
  /\ ev = [id |-> 0, og |-> EmptyMap]
  /\ prev = EmptyMap
  /\ rendered = <<>>
  /\ processed = <<>>
  /\ exited = FALSE

\* --------------------------------------------------------------------------
\* inspect: the worker pool of newInspectCmd
\* --------------------------------------------------------------------------
UrlLists == UNION {[1..n -> URLs] : n \in 0..MaxUrls}

WorkerFlags == (0 - 1)..(MaxUrls + 1)

Min(a, b) == IF a < b THEN a ELSE b

\* variant: the count is not capped at the number of URLs
workerCountNoCap(flag, numCPU, n) == IF flag <= 0 THEN numCPU ELSE flag

\* the worker count the pool is started with, from the flag
workerCount(flag, numCPU, n) == Min(IF flag <= 0 THEN numCPU ELSE flag, n)

\* strings.TrimSpace on a line: the spaces at both ends are dropped
RECURSIVE TrimLeft(_)
TrimLeft(line) ==
  IF line # <<>> /\ Head(line) = " " THEN TrimLeft(Tail(line)) ELSE line

RECURSIVE TrimRight(_)
TrimRight(line) ==
  IF line # <<>> /\ line[Len(line)] = " "
  THEN TrimRight(SubSeq(line, 1, Len(line) - 1))
  ELSE line

TrimSpace(line) == TrimRight(TrimLeft(line))

\* the string made of the pieces of a trimmed line: "" for none, the URL text
\* for one (the lines of StdinLines have at most one piece that is no space)
Text(pieces) == IF pieces = <<>> THEN "" ELSE pieces[1]

\* the scanner loop over STDIN: the trimmed lines that are not empty
RECURSIVE scanLines(_, _)
scanLines(lines, acc) ==
  IF lines = <<>> THEN acc
  ELSE LET line == Text(TrimSpace(Head(lines)))
       IN  scanLines(Tail(lines), IF line # "" THEN Append(acc, line) ELSE acc)

\* the loop over args: "-" appends what is left on STDIN, up to its end; any
\* other argument is appended as it is
RECURSIVE collectURLs(_, _, _)
collectURLs(as, in, acc) ==
  IF as = <<>> THEN acc
  ELSE IF Head(as) = "-"
       THEN collectURLs(Tail(as), <<>>, scanLines(in, acc))
       ELSE collectURLs(Tail(as), in, Append(acc, Head(as)))

\* the lines STDIN can hold: empty, blank, a URL, a URL between spaces
StdinLines == {<<>>, <<" ">>, <<"u1">>, <<" ", "u2", " ">>}

StdinTexts == UNION {[1..n -> StdinLines] : n \in 0..MaxLines}

\* the argument lists that read STDIN
DashArgs == {<<"-">>, <<"-", "-">>, <<"u1", "-">>}

\* cobra.MinimumNArgs(1): at least one argument.  STDIN is left empty when no
\* argument reads it.
InspectInputs ==
  {<<a, <<>>>> : a \in UrlLists \ {<<>>}} \cup (DashArgs \X StdinTexts)

InspectInit ==
  /\ \E i \in InspectInputs : args = i[1] /\ stdin = i[2]
  /\ urls = <<>>
  /\ workers \in WorkerFlags
  /\ jsonOut \in BOOLEAN
  /\ mainPc = "start"
  /\ fed = 0
  /\ tasksClosed = FALSE
  /\ wpc = <<>>
  /\ wres = <<>>
  /\ wg = 0
  /\ resultsClosed = FALSE
  /\ received = <<>>
  /\ exitCode = 0
  /\ aggregated = EmptyMap
  /\ out = <<>>
  /\ outcome = ""
  /\ panicked = FALSE
  /\ MonitorIdle
  /\ call = NoCall

Running == ~panicked /\ outcome = ""

Pool == /\ Running
        /\ mainPc \in {"recv", "finish"}

\* variant: no test of len(urls) before the pool is set up
StartNoCheck(numCPU, scanOk) ==
  /\ Running
  /\ mainPc = "start"
  /\ scanOk \/ \E i \in DOMAIN args : args[i] = "-"
  /\ LET collected == collectURLs(args, stdin, <<>>)
     IN  IF ~scanOk
         THEN /\ outcome' = "stdin error"
              /\ mainPc' = "returned"
              /\ UNCHANGED <<urls, workers, wpc, wres, wg>>
         ELSE LET w == workerCount(workers, numCPU, Len(collected))
              IN  /\ urls' = collected
                  /\ workers' = w
                  /\ wpc' = [i \in 1..w |-> "recv"]
                  /\ wres' = [i \in 1..w |-> NoResult]
                  /\ wg' = w
                  /\ mainPc' = "recv"
                  /\ UNCHANGED outcome
  /\ UNCHANGED <<args, stdin, jsonOut, fed, tasksClosed, resultsClosed, received,
                 exitCode, aggregated, out, panicked>>
  /\ UNCHANGED <<monitorVars, pureVars>>

\* RunE up to the aggregator loop: the URLs from args and STDIN (scanOk: the
\* scanner met no read error), the zero-URL check, the channels, the worker
\* count, the workers, the feeder and the closer.
Start(numCPU, scanOk) ==
  /\ Running
  /\ mainPc = "start"
  /\ scanOk \/ \E i \in DOMAIN args : args[i] = "-"
  /\ LET collected == collectURLs(args, stdin, <<>>)
     IN  IF ~scanOk
         THEN /\ outcome' = "stdin error"
              /\ mainPc' = "returned"
              /\ UNCHANGED <<urls, workers, wpc, wres, wg>>
         ELSE IF Len(collected) = 0
         THEN /\ outcome' = "no URLs"
              /\ mainPc' = "returned"
              /\ UNCHANGED <<urls, workers, wpc, wres, wg>>
         ELSE LET w == workerCount(workers, numCPU, Len(collected))
              IN  /\ urls' = collected
                  /\ workers' = w
                  /\ wpc' = [i \in 1..w |-> "recv"]
                  /\ wres' = [i \in 1..w |-> NoResult]
                  /\ wg' = w
                  /\ mainPc' = "recv"
                  /\ UNCHANGED outcome
  /\ UNCHANGED <<args, stdin, jsonOut, fed, tasksClosed, resultsClosed, received,
                 exitCode, aggregated, out, panicked>>
  /\ UNCHANGED <<monitorVars, pureVars>>

\* variant: a URL is handed to a worker that still holds a result to send
FeedTaskAny(w) ==
  /\ Pool
  /\ ~tasksClosed
  /\ fed < Len(urls)
  /\ w \in DOMAIN wpc
  /\ wpc[w] \in {"recv", "send"}
  /\ fed' = fed + 1
  /\ wres' = [wres EXCEPT ![w] = [url |-> urls[fed + 1], og |-> EmptyMap, err |-> ""]]
  /\ wpc' = [wpc EXCEPT ![w] = "fetch"]
  /\ UNCHANGED <<args, stdin, urls, workers, jsonOut, mainPc, tasksClosed, wg, resultsClosed,
                 received, exitCode, aggregated, out, outcome, panicked>>
  /\ UNCHANGED <<monitorVars, pureVars>>

\* variant: the feeder goes through urls from the last to the first
FeedTaskReversed(w) ==
  /\ Pool
  /\ ~tasksClosed
  /\ fed < Len(urls)
  /\ w \in DOMAIN wpc
  /\ wpc[w] = "recv"
  /\ fed' = fed + 1
  /\ wres' = [wres EXCEPT ![w] = [url |-> urls[Len(urls) - fed], og |-> EmptyMap, err |-> ""]]
  /\ wpc' = [wpc EXCEPT ![w] = "fetch"]
  /\ UNCHANGED <<args, stdin, urls, workers, jsonOut, mainPc, tasksClosed, wg, resultsClosed,
                 received, exitCode, aggregated, out, outcome, panicked>>
  /\ UNCHANGED <<monitorVars, pureVars>>

\* tasks <- u met by a worker's receive in `for u := range tasks`
FeedTask(w) ==
  /\ Pool
  /\ ~tasksClosed
  /\ fed < Len(urls)
  /\ w \in DOMAIN wpc
  /\ wpc[w] = "recv"
  /\ fed' = fed + 1
  /\ wres' = [wres EXCEPT ![w] = [url |-> urls[fed + 1], og |-> EmptyMap, err |-> ""]]
  /\ wpc' = [wpc EXCEPT ![w] = "fetch"]
  /\ UNCHANGED <<args, stdin, urls, workers, jsonOut, mainPc, tasksClosed, wg, resultsClosed,
                 received, exitCode, aggregated, out, outcome, panicked>>
  /\ UNCHANGED <<monitorVars, pureVars>>

\* variant: the feeder closes tasks before it has handed out every URL
CloseTasksEarly ==
  /\ Pool
  /\ ~tasksClosed
  /\ tasksClosed' = TRUE
  /\ UNCHANGED <<args, stdin, urls, workers, jsonOut, mainPc, fed, wpc, wres, wg, resultsClosed,
                 received, exitCode, aggregated, out, outcome, panicked>>
  /\ UNCHANGED <<monitorVars, pureVars>>

\* the feeder's close(tasks), after its loop over urls
CloseTasks ==
  /\ Pool
  /\ ~tasksClosed
  /\ fed = Len(urls)
  /\ tasksClosed' = TRUE
  /\ UNCHANGED <<args, stdin, urls, workers, jsonOut, mainPc, fed, wpc, wres, wg, resultsClosed,
                 received, exitCode, aggregated, out, outcome, panicked>>
  /\ UNCHANGED <<monitorVars, pureVars>>

\* fetchHTML returned a page: the worker holds result{url, og: parseOG(html)}
WorkerFetchOk(w, html) ==
  /\ Pool
  /\ w \in DOMAIN wpc
  /\ wpc[w] = "fetch"
  /\ html \in Serve(wres[w].url)
  /\ wres' = [wres EXCEPT ![w] = [url |-> wres[w].url, og |-> parseOG(html), err |-> ""]]
  /\ wpc' = [wpc EXCEPT ![w] = "send"]
  /\ UNCHANGED <<args, stdin, urls, workers, jsonOut, mainPc, fed, tasksClosed, wg, resultsClosed,
                 received, exitCode, aggregated, out, outcome, panicked>>
  /\ UNCHANGED <<monitorVars, pureVars>>

\* (mutation) a failed fetch is skipped: the worker takes the next task without
\* sending a result
WorkerFetchErrDrop(w, e) ==
  /\ Pool
  /\ w \in DOMAIN wpc
  /\ wpc[w] = "fetch"
  /\ e \in Fail(wres[w].url)
  /\ wres' = [wres EXCEPT ![w] = NoResult]
  /\ wpc' = [wpc EXCEPT ![w] = "recv"]
  /\ UNCHANGED <<args, stdin, urls, workers, jsonOut, mainPc, fed, tasksClosed, wg, resultsClosed,
                 received, exitCode, aggregated, out, outcome, panicked>>
  /\ UNCHANGED <<monitorVars, pureVars>>

\* fetchHTML returned an error: the worker holds result{url, err}
WorkerFetchErr(w, e) ==
  /\ Pool
  /\ w \in DOMAIN wpc
  /\ wpc[w] = "fetch"
  /\ e \in Fail(wres[w].url)
  /\ wres' = [wres EXCEPT ![w] = [url |-> wres[w].url, og |-> EmptyMap, err |-> e]]
  /\ wpc' = [wpc EXCEPT ![w] = "send"]
  /\ UNCHANGED <<args, stdin, urls, workers, jsonOut, mainPc, fed, tasksClosed, wg, resultsClosed,
                 received, exitCode, aggregated, out, outcome, panicked>>
  /\ UNCHANGED <<monitorVars, pureVars>>

\* (mutation) the loop body reports a failure without recording it in exitCode
aggregateNoExitCode(r, st) ==
  IF r.err # ""
  THEN [st EXCEPT !.out = Append(st.out, [kind |-> "error", url |-> r.url, og |-> EmptyMap,
                                           missing |-> <<>>, err |-> r.err])]
  ELSE IF st.jsonOut
  THEN [st EXCEPT !.aggregated = MapPut(st.aggregated, r.url, r.og)]
  ELSE [st EXCEPT !.out = Append(st.out, [kind |-> "table", url |-> r.url, og |-> r.og,
                                           missing |-> missingTags(r.og, FALSE),
                                           err |-> ""])]

\* one pass of the body of `for r := range results`, on the result r
aggregate(r, st) ==
  IF r.err # ""
  THEN [st EXCEPT !.out = Append(st.out, [kind |-> "error", url |-> r.url, og |-> EmptyMap,
                                           missing |-> <<>>, err |-> r.err]),
                  !.exitCode = 1]
  ELSE IF st.jsonOut
  THEN [st EXCEPT !.aggregated = MapPut(st.aggregated, r.url, r.og)]
  ELSE [st EXCEPT !.out = Append(st.out, [kind |-> "table", url |-> r.url, og |-> r.og,
                                           missing |-> missingTags(r.og, FALSE),
                                           err |-> ""])]

\* (mutation) the worker returns after sending a failure instead of continuing
WorkerSendFailStops(w) ==
  /\ Pool
  /\ w \in DOMAIN wpc
  /\ wpc[w] = "send"
  /\ IF resultsClosed
     THEN /\ panicked' = TRUE
          /\ UNCHANGED <<wpc, wres, wg, received, exitCode, aggregated, out>>
     ELSE /\ mainPc = "recv"
          /\ LET st == aggregate(wres[w], [jsonOut |-> jsonOut, exitCode |-> exitCode,
                                           aggregated |-> aggregated, out |-> out])
             IN  /\ exitCode' = st.exitCode
                 /\ aggregated' = st.aggregated
                 /\ out' = st.out
          /\ received' = Append(received, wres[w])
          /\ wpc' = [wpc EXCEPT ![w] = IF wres[w].err # "" THEN "done" ELSE "recv"]
          /\ wg' = IF wres[w].err # "" THEN wg - 1 ELSE wg
          /\ wres' = [wres EXCEPT ![w] = NoResult]
          /\ UNCHANGED panicked
  /\ UNCHANGED <<args, stdin, urls, workers, jsonOut, mainPc, fed, tasksClosed, resultsClosed,
                 outcome>>
  /\ UNCHANGED <<monitorVars, pureVars>>

\* results <- r: it panics on a closed channel, and otherwise completes when
\* the aggregator is at its receive, which then runs the loop body on r and
\* comes back to its receive; the worker takes the next task (after the
\* failure's `continue` as after a success).
WorkerSend(w) ==
  /\ Pool
  /\ w \in DOMAIN wpc
  /\ wpc[w] = "send"
  /\ IF resultsClosed
     THEN /\ panicked' = TRUE
          /\ UNCHANGED <<wpc, wres, received, exitCode, aggregated, out>>
     ELSE /\ mainPc = "recv"
          /\ LET st == aggregate(wres[w], [jsonOut |-> jsonOut, exitCode |-> exitCode,
                                           aggregated |-> aggregated, out |-> out])
             IN  /\ exitCode' = st.exitCode
                 /\ aggregated' = st.aggregated
                 /\ out' = st.out
          /\ received' = Append(received, wres[w])
          /\ wpc' = [wpc EXCEPT ![w] = "recv"]
          /\ wres' = [wres EXCEPT ![w] = NoResult]
          /\ UNCHANGED panicked
  /\ UNCHANGED <<args, stdin, urls, workers, jsonOut, mainPc, fed, tasksClosed, wg, resultsClosed,
                 outcome>>
  /\ UNCHANGED <<monitorVars, pureVars>>

\* (mutation) the worker returns without wg.Done()
WorkerExitNoDone(w) ==
  /\ Pool
  /\ w \in DOMAIN wpc
  /\ wpc[w] = "recv"
  /\ tasksClosed
  /\ wpc' = [wpc EXCEPT ![w] = "done"]
  /\ UNCHANGED <<args, stdin, urls, workers, jsonOut, mainPc, fed, tasksClosed, wres, wg, resultsClosed,
                 received, exitCode, aggregated, out, outcome, panicked>>
  /\ UNCHANGED <<monitorVars, pureVars>>

\* `range tasks` ends on the closed channel: the worker returns, wg.Done()
WorkerExit(w) ==
  /\ Pool
  /\ w \in DOMAIN wpc
  /\ wpc[w] = "recv"
  /\ tasksClosed
  /\ wpc' = [wpc EXCEPT ![w] = "done"]
  /\ wg' = wg - 1
  /\ UNCHANGED <<args, stdin, urls, workers, jsonOut, mainPc, fed, tasksClosed, wres, resultsClosed,
                 received, exitCode, aggregated, out, outcome, panicked>>
  /\ UNCHANGED <<monitorVars, pureVars>>

\* (mutation) the closer closes results without wg.Wait()
CloseResultsNoWait ==
  /\ Pool
  /\ ~resultsClosed
  /\ resultsClosed' = TRUE
  /\ UNCHANGED <<args, stdin, urls, workers, jsonOut, mainPc, fed, tasksClosed, wpc, wres, wg,
                 received, exitCode, aggregated, out, outcome, panicked>>
  /\ UNCHANGED <<monitorVars, pureVars>>

\* variant: the closer waits for close(tasks) instead of the workers
CloseResultsOnTasksClosed ==
  /\ Pool
  /\ ~resultsClosed
  /\ tasksClosed
  /\ resultsClosed' = TRUE
  /\ UNCHANGED <<args, stdin, urls, workers, jsonOut, mainPc, fed, tasksClosed, wpc, wres, wg,
                 received, exitCode, aggregated, out, outcome, panicked>>
  /\ UNCHANGED <<monitorVars, pureVars>>

\* the closer: wg.Wait() returns, close(results)
CloseResults ==
  /\ Pool
  /\ ~resultsClosed
  /\ wg = 0
  /\ resultsClosed' = TRUE
  /\ UNCHANGED <<args, stdin, urls, workers, jsonOut, mainPc, fed, tasksClosed, wpc, wres, wg,
                 received, exitCode, aggregated, out, outcome, panicked>>
  /\ UNCHANGED <<monitorVars, pureVars>>

\* `range results` ends: the channel is closed and no send is pending on it
EndLoop ==
  /\ Pool
  /\ mainPc = "recv"
  /\ resultsClosed
  /\ mainPc' = "finish"
  /\ UNCHANGED <<args, stdin, urls, workers, jsonOut, fed, tasksClosed, wpc, wres, wg, resultsClosed,
                 received, exitCode, aggregated, out, outcome, panicked>>
  /\ UNCHANGED <<monitorVars, pureVars>>

\* (mutation) the exit code is tested before the JSON aggregate is encoded
FinishFailFirst(encodeOk) ==
  /\ Pool
  /\ mainPc = "finish"
  /\ IF exitCode # 0
     THEN /\ outcome' = "failed"
          /\ UNCHANGED out
     ELSE IF jsonOut /\ ~encodeOk
     THEN /\ outcome' = "encode error"
          /\ UNCHANGED out
     ELSE /\ out' = IF jsonOut
                    THEN Append(out, [kind |-> "json", url |-> "", og |-> aggregated,
                                      missing |-> <<>>, err |-> ""])
                    ELSE out
          /\ outcome' = "ok"
  /\ mainPc' = "returned"
  /\ UNCHANGED <<args, stdin, urls, workers, jsonOut, fed, tasksClosed, wpc, wres, wg, resultsClosed,
                 received, exitCode, aggregated, panicked>>
  /\ UNCHANGED <<monitorVars, pureVars>>

\* after the loop: the JSON aggregate is encoded (the write can fail), then
\* the exit code decides the error returned
Finish(encodeOk) ==
  /\ Pool
  /\ mainPc = "finish"
  /\ IF jsonOut /\ ~encodeOk
     THEN /\ outcome' = "encode error"
          /\ UNCHANGED out
     ELSE /\ out' = IF jsonOut
                    THEN Append(out, [kind |-> "json", url |-> "", og |-> aggregated,
                                      missing |-> <<>>, err |-> ""])
                    ELSE out
          /\ outcome' = IF exitCode # 0 THEN "failed" ELSE "ok"
  /\ mainPc' = "returned"
  /\ UNCHANGED <<args, stdin, urls, workers, jsonOut, fed, tasksClosed, wpc, wres, wg, resultsClosed,
                 received, exitCode, aggregated, panicked>>
  /\ UNCHANGED <<monitorVars, pureVars>>

InspectNext ==
  \/ \E n \in 1..MaxCPU, ok \in BOOLEAN : Start(n, ok)
  \/ \E w \in 1..MaxUrls : FeedTask(w)
  \/ CloseTasks
  \/ \E w \in 1..MaxUrls, html \in Pages : WorkerFetchOk(w, html)
  \/ \E w \in 1..MaxUrls, e \in FetchErrors : WorkerFetchErr(w, e)
  \/ \E w \in 1..MaxUrls : WorkerSend(w)
  \/ \E w \in 1..MaxUrls : WorkerExit(w)
  \/ CloseResults
  \/ EndLoop
  \/ \E ok \in BOOLEAN : Finish(ok)

InspectSpec == InspectInit /\ [][InspectNext]_vars

\* Scheduling: the Go scheduler runs every runnable goroutine eventually, and
\* every fetch ends (fetchHTML is bounded by its context and client timeouts).
Feeder == (\E w \in 1..MaxUrls : FeedTask(w)) \/ CloseTasks

Worker(w) ==
  \/ FeedTask(w)
  \/ \E html \in Pages : WorkerFetchOk(w, html)
  \/ \E e \in FetchErrors : WorkerFetchErr(w, e)
  \/ WorkerSend(w)
  \/ WorkerExit(w)

MainGoroutine == (\E n \in 1..MaxCPU, ok \in BOOLEAN : Start(n, ok)) \/ EndLoop \/ (\E ok \in BOOLEAN : Finish(ok))

InspectFairSpec ==
  /\ InspectSpec
  /\ WF_vars(MainGoroutine)
  /\ WF_vars(Feeder)
  /\ \A w \in 1..MaxUrls : WF_vars(Worker(w))
  /\ WF_vars(CloseResults)

\* --------------------------------------------------------------------------
\* inspect: properties
\* --------------------------------------------------------------------------
Count(seq, P(_)) == Cardinality({i \in DOMAIN seq : P(seq[i])})

Failed(r) == r.err # ""

Succeeded(r) == r.err = ""

HasFailure == \E i \in DOMAIN received : Failed(received[i])

LoopEnded == mainPc \in {"finish", "returned"} /\ Len(urls) > 0

Returned == outcome \in {"ok", "failed", "encode error"}

AllWorkersDone == \A w \in DOMAIN wpc : wpc[w] = "done"

PoolDrained ==
  /\ tasksClosed
  /\ AllWorkersDone
  /\ resultsClosed
  /\ mainPc \in {"finish", "returned"}

\* C1: when the aggregator's loop over the result channel ends it has received
\* exactly L results, and every URL occurs among the results as often as among
\* the submitted URLs, whatever fetches failed.
InspectExactlyOncePerUrl ==
  LoopEnded =>
    /\ Len(received) = Len(urls)
    /\ \A u \in URLs :
         Count(received, LAMBDA r : r.url = u) = Count(urls, LAMBDA x : x = u)

\* a batch of three with a repeated URL, two workers, a failure and a success
InspectExactlyOncePerUrlWitness ==
  /\ mainPc = "finish"
  /\ Len(urls) = 3
  /\ urls[1] = urls[3]
  /\ workers = 2
  /\ HasFailure
  /\ \E i \in DOMAIN received : Succeeded(received[i])

\* C2: under fair scheduling, with every fetch ending, every run over a
\* non-empty URL list reaches the state in which the feeder has closed the task
\* channel, every worker has returned, the result channel is closed and the
\* aggregator loop has exited; and no reachable state of a started pool is a
\* deadlock (no goroutine can step although RunE has not returned).
InspectPoolTerminates ==
  /\ []((mainPc # "idle" /\ outcome = "" /\ ~panicked) => ENABLED InspectNext)
  /\ [](Len(urls) > 0 => <>PoolDrained)

\* the pool has drained a batch of three in which every fetch failed
InspectPoolTerminatesWitness ==
  /\ PoolDrained
  /\ Len(urls) = 3
  /\ Len(received) = 3
  /\ \A i \in DOMAIN received : Failed(received[i])

\* C3 as stated: RunE returns the aggregate failure exactly if one of the
\* results received is a failure, and returns only after the result channel is
\* closed and all L results are consumed.
InspectFailedIffFailure ==
  Returned =>
    /\ (outcome = "failed") <=> HasFailure
    /\ resultsClosed
    /\ Len(received) = Len(urls)

\* C3 amended: when the JSON aggregate is written without error (always in
\* table mode) RunE returns the aggregate failure exactly if one of the results
\* received is a failure; when writing it fails (JSON mode only) RunE returns
\* the encoder's error, with or without failures.  RunE returns only after the
\* result channel is closed and all L results are consumed, and a failure
\* received while the channel is open leaves the aggregator at its receive.
InspectFailedIffFailureUnlessEncodeError ==
  /\ Returned =>
       /\ outcome # "encode error" => ((outcome = "failed") <=> HasFailure)
       /\ outcome = "encode error" => jsonOut
       /\ resultsClosed
       /\ Len(received) = Len(urls)
  /\ (HasFailure /\ ~resultsClosed /\ ~panicked) => (mainPc = "recv" /\ outcome = "")

\* the first of three results was a failure, the last a success, and RunE
\* returned the aggregate failure
InspectFailedIffFailureWitness ==
  /\ outcome = "failed"
  /\ Len(received) = 3
  /\ Failed(received[1])
  /\ Succeeded(received[3])

InspectFailureKeepsWorker ==
  /\ [][\A w \in DOMAIN wpc :
          (wpc[w] = "send" /\ Failed(wres[w]) /\ wpc'[w] # "send") =>
            /\ wpc'[w] = "recv"
            /\ \A v \in DOMAIN wpc \ {w} : wpc'[v] = wpc[v]
            /\ wg' = wg
            /\ ~panicked']_vars
  /\ [](LoopEnded => Len(received) = Len(urls))

\* a single worker: the first URL failed and the second still has its result
InspectFailureKeepsWorkerWitness ==
  /\ workers = 1
  /\ mainPc = "recv"
  /\ Len(urls) = 2
  /\ Len(received) = 2
  /\ Failed(received[1])

\* C6 as stated: the aggregator receives its first result only after all
\* workers have returned.
InspectDrainsAfterWorkers ==
  (mainPc # "start" /\ Len(received) > 0) => AllWorkersDone

\* C6 amended: the aggregator's loop ends only after every worker has
\* returned; the results themselves are received while their senders are
\* still running, each from a worker that is at its send.
InspectLoopEndsAfterWorkers ==
  /\ [](LoopEnded => AllWorkersDone /\ wg = 0)
  /\ [][Len(received') > Len(received) =>
          \E w \in DOMAIN wpc : wpc[w] = "send" /\ wpc'[w] = "recv"]_vars

\* the loop has ended on a batch of three served by three workers
InspectLoopEndsAfterWorkersWitness ==
  /\ mainPc = "finish"
  /\ workers = 3
  /\ Len(received) = 3
  /\ AllWorkersDone

\* --------------------------------------------------------------------------
\* monitor: the fetch / render pipeline of newMonitorCmd
\* --------------------------------------------------------------------------
MonitorURL == "m"

Modes == {"json", "unified", "colour"}

NoEvent == [id |-> 0, og |-> EmptyMap]

\* the inspect variables while monitor runs
InspectIdle ==
  /\ args = <<>>
  /\ stdin = <<>>
  /\ urls = <<>>
  /\ workers = 0
  /\ jsonOut = FALSE
  /\ mainPc = "idle"
  /\ fed = 0
  /\ tasksClosed = FALSE
  /\ wpc = <<>>
  /\ wres = <<>>
  /\ wg = 0
  /\ resultsClosed = FALSE
  /\ received = <<>>
  /\ exitCode = 0
  /\ aggregated = EmptyMap
  /\ out = <<>>
  /\ outcome = ""

\* RunE has started the control goroutine and is at `range diffChan`
MonitorInit ==
  /\ InspectIdle
  /\ panicked = FALSE
  /\ call = NoCall
  /\ mode \in Modes
  /\ ctxDone = FALSE
  /\ tickPending = FALSE
  /\ ticks = 0
  /\ ctlPc = "select"
  /\ diffClosed = FALSE
  /\ task = <<>>
  /\ renderPc = "recv"
  /\ ev = NoEvent
  /\ prev = EmptyMap
  /\ rendered = <<>>
  /\ processed = <<>>
  /\ exited = FALSE

Alive == ~panicked /\ ~exited /\ renderPc # "idle"

\* cmd.Context() is cancelled (signal or expiry).  main() runs the command
\* with Execute(), whose context is never cancelled; a caller that runs it
\* with ExecuteContext can cancel it at any time.
Cancel ==
  /\ Alive
  /\ ~ctxDone
  /\ ctxDone' = TRUE
  /\ UNCHANGED <<mode, tickPending, ticks, ctlPc, diffClosed, task, renderPc, ev, prev,
                 rendered, processed, exited>>
  /\ UNCHANGED <<inspectVars, pureVars, panicked>>

\* the ticker puts a tick on ticker.C (capacity 1; dropped when one is pending)
Tick ==
  /\ Alive
  /\ ~tickPending
  /\ ticks < MaxTicks
  /\ tickPending' = TRUE
  /\ UNCHANGED <<mode, ctxDone, ticks, ctlPc, diffClosed, task, renderPc, ev, prev,
                 rendered, processed, exited>>
  /\ UNCHANGED <<inspectVars, pureVars, panicked>>

\* select, case <-ctx.Done(): close(diffChan); return
CtlStop ==
  /\ Alive
  /\ ctlPc = "select"
  /\ ctxDone
  /\ diffClosed' = TRUE
  /\ ctlPc' = "returned"
  /\ UNCHANGED <<mode, ctxDone, tickPending, ticks, task, renderPc, ev, prev,
                 rendered, processed, exited>>
  /\ UNCHANGED <<inspectVars, pureVars, panicked>>

\* variant: the fetch task is handed the baseline of the render loop
CtlDispatchSharedPrev ==
  /\ Alive
  /\ ctlPc = "select"
  /\ tickPending
  /\ tickPending' = FALSE
  /\ ticks' = ticks + 1
  /\ task' = Append(task, [pc |-> "fetch", p |-> prev, og |-> EmptyMap, err |-> ""])
  /\ UNCHANGED <<mode, ctxDone, ctlPc, diffClosed, renderPc, ev, prev,
                 rendered, processed, exited>>
  /\ UNCHANGED <<inspectVars, pureVars, panicked>>

\* select, case <-ticker.C: go func(p){...}(prev), with the goroutine's own
\* prev, which is never assigned (nil).  With both cases ready select takes
\* either.
CtlDispatch ==
  /\ Alive
  /\ ctlPc = "select"
  /\ tickPending
  /\ tickPending' = FALSE
  /\ ticks' = ticks + 1
  /\ task' = Append(task, [pc |-> "fetch", p |-> EmptyMap, og |-> EmptyMap, err |-> ""])
  /\ UNCHANGED <<mode, ctxDone, ctlPc, diffClosed, renderPc, ev, prev,
                 rendered, processed, exited>>
  /\ UNCHANGED <<inspectVars, pureVars, panicked>>

\* fetchHTML returned a page: og := parseOG(html), the task goes to its send
TaskFetchOk(t, html) ==
  /\ Alive
  /\ t \in DOMAIN task
  /\ task[t].pc = "fetch"
  /\ html \in Serve(MonitorURL)
  /\ task' = [task EXCEPT ![t].pc = "send", ![t].og = parseOG(html)]
  /\ UNCHANGED <<mode, ctxDone, tickPending, ticks, ctlPc, diffClosed, renderPc, ev, prev,
                 rendered, processed, exited>>
  /\ UNCHANGED <<inspectVars, pureVars, panicked>>

\* (mutation) the `return` after the error report is missing: the task goes on
\* to parse the empty document and to send the event
TaskFetchErrNoReturn(t, e) ==
  /\ Alive
  /\ t \in DOMAIN task
  /\ task[t].pc = "fetch"
  /\ e \in Fail(MonitorURL)
  /\ task' = [task EXCEPT ![t].pc = "send", ![t].og = parseOG(<<>>), ![t].err = e]
  /\ rendered' = Append(rendered, [kind |-> "error", err |-> e, diff |-> EmptyMap])
  /\ UNCHANGED <<mode, ctxDone, tickPending, ticks, ctlPc, diffClosed, renderPc, ev, prev,
                 processed, exited>>
  /\ UNCHANGED <<inspectVars, pureVars, panicked>>

\* fetchHTML returned an error: it is printed and the task returns
TaskFetchErr(t, e) ==
  /\ Alive
  /\ t \in DOMAIN task
  /\ task[t].pc = "fetch"
  /\ e \in Fail(MonitorURL)
  /\ task' = [task EXCEPT ![t].pc = "failed", ![t].err = e]
  /\ rendered' = Append(rendered, [kind |-> "error", err |-> e, diff |-> EmptyMap])
  /\ UNCHANGED <<mode, ctxDone, tickPending, ticks, ctlPc, diffClosed, renderPc, ev, prev,
                 processed, exited>>
  /\ UNCHANGED <<inspectVars, pureVars, panicked>>

\* diffChan <- event{ts, og}: it panics on a closed channel, and otherwise
\* completes when the render loop is at its receive
TaskSend(t) ==
  /\ Alive
  /\ t \in DOMAIN task
  /\ task[t].pc = "send"
  /\ IF diffClosed
     THEN /\ panicked' = TRUE
          /\ UNCHANGED <<task, ev, renderPc>>
     ELSE /\ renderPc = "recv"
          /\ ev' = [id |-> t, og |-> task[t].og]
          /\ renderPc' = "process"
          /\ task' = [task EXCEPT ![t].pc = "done"]
          /\ UNCHANGED panicked
  /\ UNCHANGED <<mode, ctxDone, tickPending, ticks, ctlPc, diffClosed, prev,
                 rendered, processed, exited>>
  /\ UNCHANGED <<inspectVars, pureVars>>

\* variant: the render loop leaves after its first event
RenderOnce ==
  /\ Alive
  /\ renderPc = "process"
  /\ LET diff == diffMaps(prev, ev.og)
     IN  rendered' = IF Cardinality(DOMAIN diff) > 0
                     THEN Append(rendered, [kind |-> mode, err |-> "", diff |-> diff])
                     ELSE rendered
  /\ prev' = ev.og
  /\ processed' = Append(processed, [id |-> ev.id, og |-> ev.og, base |-> prev,
                                      diff |-> diffMaps(prev, ev.og)])
  /\ ev' = NoEvent
  /\ renderPc' = "returned"
  /\ UNCHANGED <<mode, ctxDone, tickPending, ticks, ctlPc, diffClosed, task, exited>>
  /\ UNCHANGED <<inspectVars, pureVars, panicked>>

\* variant: the snapshot of the event is also written into the map that was
\* the baseline (the snapshot of the event processed before)
RenderWritesOldSnapshot ==
  /\ Alive
  /\ renderPc = "process"
  /\ LET diff == diffMaps(prev, ev.og)
     IN  rendered' = IF Cardinality(DOMAIN diff) > 0
                     THEN Append(rendered, [kind |-> mode, err |-> "", diff |-> diff])
                     ELSE rendered
  /\ prev' = ev.og
  /\ processed' = Append(processed, [id |-> ev.id, og |-> ev.og, base |-> prev,
                                      diff |-> diffMaps(prev, ev.og)])
  /\ task' = IF processed = <<>> THEN task
             ELSE [task EXCEPT ![processed[Len(processed)].id].og = ev.og]
  /\ ev' = NoEvent
  /\ renderPc' = "recv"
  /\ UNCHANGED <<mode, ctxDone, tickPending, ticks, ctlPc, diffClosed, exited>>
  /\ UNCHANGED <<inspectVars, pureVars, panicked>>

\* variant: the diff is rendered whether or not it is empty
RenderAlways ==
  /\ Alive
  /\ renderPc = "process"
  /\ LET diff == diffMaps(prev, ev.og)
     IN  rendered' = Append(rendered, [kind |-> mode, err |-> "", diff |-> diff])
  /\ prev' = ev.og
  /\ processed' = Append(processed, [id |-> ev.id, og |-> ev.og, base |-> prev,
                                      diff |-> diffMaps(prev, ev.og)])
  /\ ev' = NoEvent
  /\ renderPc' = "recv"
  /\ UNCHANGED <<mode, ctxDone, tickPending, ticks, ctlPc, diffClosed, task, exited>>
  /\ UNCHANGED <<inspectVars, pureVars, panicked>>

\* variant: the baseline is replaced only when the diff is not empty
RenderKeepsBaselineOnEmpty ==
  /\ Alive
  /\ renderPc = "process"
  /\ LET diff == diffMaps(prev, ev.og)
     IN  /\ rendered' = IF Cardinality(DOMAIN diff) > 0
                        THEN Append(rendered, [kind |-> mode, err |-> "", diff |-> diff])
                        ELSE rendered
         /\ prev' = IF Cardinality(DOMAIN diff) > 0 THEN ev.og ELSE prev
  /\ processed' = Append(processed, [id |-> ev.id, og |-> ev.og, base |-> prev,
                                      diff |-> diffMaps(prev, ev.og)])
  /\ ev' = NoEvent
  /\ renderPc' = "recv"
  /\ UNCHANGED <<mode, ctxDone, tickPending, ticks, ctlPc, diffClosed, task, exited>>
  /\ UNCHANGED <<inspectVars, pureVars, panicked>>

\* variant: the event is diffed against the baseline handed to its fetch task
\* at dispatch
RenderDispatchBaseline ==
  /\ Alive
  /\ renderPc = "process"
  /\ LET diff == diffMaps(task[ev.id].p, ev.og)
     IN  rendered' = IF Cardinality(DOMAIN diff) > 0
                     THEN Append(rendered, [kind |-> mode, err |-> "", diff |-> diff])
                     ELSE rendered
  /\ prev' = ev.og
  /\ processed' = Append(processed, [id |-> ev.id, og |-> ev.og, base |-> task[ev.id].p,
                                      diff |-> diffMaps(task[ev.id].p, ev.og)])
  /\ ev' = NoEvent
  /\ renderPc' = "recv"
  /\ UNCHANGED <<mode, ctxDone, tickPending, ticks, ctlPc, diffClosed, task, exited>>
  /\ UNCHANGED <<inspectVars, pureVars, panicked>>

\* the body of `for ev := range diffChan`: diff, render, prev = ev.og
Render ==
  /\ Alive
  /\ renderPc = "process"
  /\ LET diff == diffMaps(prev, ev.og)
     IN  rendered' = IF Cardinality(DOMAIN diff) > 0
                     THEN Append(rendered, [kind |-> mode, err |-> "", diff |-> diff])
                     ELSE rendered
  /\ prev' = ev.og
  /\ processed' = Append(processed, [id |-> ev.id, og |-> ev.og, base |-> prev,
                                      diff |-> diffMaps(prev, ev.og)])
  /\ ev' = NoEvent
  /\ renderPc' = "recv"
  /\ UNCHANGED <<mode, ctxDone, tickPending, ticks, ctlPc, diffClosed, task, exited>>
  /\ UNCHANGED <<inspectVars, pureVars, panicked>>

\* `range diffChan` ends on the closed channel: RunE returns nil
RenderEnd ==
  /\ Alive
  /\ renderPc = "recv"
  /\ diffClosed
  /\ renderPc' = "returned"
  /\ UNCHANGED <<mode, ctxDone, tickPending, ticks, ctlPc, diffClosed, task, ev, prev,
                 rendered, processed, exited>>
  /\ UNCHANGED <<inspectVars, pureVars, panicked>>

\* main returns after Execute(): the process exits, whatever goroutines run
ProcessExit ==
  /\ Alive
  /\ renderPc = "returned"
  /\ exited' = TRUE
  /\ UNCHANGED <<mode, ctxDone, tickPending, ticks, ctlPc, diffClosed, task, renderPc, ev,
                 prev, rendered, processed>>
  /\ UNCHANGED <<inspectVars, pureVars, panicked>>

MonitorNext ==
  \/ Cancel
  \/ Tick
  \/ CtlStop
  \/ CtlDispatch
  \/ \E t \in 1..MaxTicks, html \in Pages : TaskFetchOk(t, html)
  \/ \E t \in 1..MaxTicks, e \in FetchErrors : TaskFetchErr(t, e)
  \/ \E t \in 1..MaxTicks : TaskSend(t)
  \/ Render
  \/ RenderEnd
  \/ ProcessExit

MonitorSpec == MonitorInit /\ [][MonitorNext]_vars

\* Fairness of the monitor.  The control goroutine, the fetch tasks and the
\* render loop are goroutines the scheduler keeps running; a fetch ends, by
\* its timeout at the latest.  A sender blocked on the unbuffered diffChan
\* waits in the channel's queue of senders, which the runtime serves in
\* arrival order, so a task that can send again and again does send: strong
\* fairness.  Nothing is assumed of the ticker, of cancellation, or of the
\* process exit.
Control == CtlStop \/ CtlDispatch

FetchEnds(t) ==
  \/ \E html \in Pages : TaskFetchOk(t, html)
  \/ \E e \in FetchErrors : TaskFetchErr(t, e)

RenderLoop == Render \/ RenderEnd

MonitorFairSpec ==
  /\ MonitorSpec
  /\ WF_vars(Control)
  /\ WF_vars(RenderLoop)
  /\ \A t \in 1..MaxTicks : WF_vars(FetchEnds(t)) /\ SF_vars(TaskSend(t))

\* --------------------------------------------------------------------------
\* monitor: properties
\* --------------------------------------------------------------------------
\* C7: the event channel is closed only once the in-flight fetch tasks have
\* finished, so that no fetch task ever sends on the closed event channel and
\* the process never crashes.
MonitorNoSendOnClosedChannel == ~panicked

\* C8: once cancellation is signalled the control loop dispatches no further
\* fetch: no step taken in a state in which ctx is cancelled starts a task.
MonitorNoDispatchAfterCancel ==
  [][ctxDone => (ticks' = ticks /\ Len(task') = Len(task))]_vars

\* C9: after a cancellation the monitor ends cleanly: a run that can go no
\* further has the render loop returned, and was not ended by a fetch task
\* that found the event channel closed.
MonitorCancelEndsCleanly ==
  (ctxDone /\ ~ENABLED MonitorNext) => (renderPc = "returned" /\ ~panicked)

\* C10: a failed fetch delivers no event and changes neither the baseline, the
\* render loop nor the control loop, which still dispatches on the next tick;
\* every processed event comes from a successful fetch and is diffed against
\* the snapshot of the event processed before it, whatever fetches failed in
\* between.
MonitorFailedFetchSkipped ==
  /\ [][\A t \in DOMAIN task :
          (task[t].pc = "fetch" /\ task'[t].pc # "fetch" /\ task'[t].err # "") =>
            /\ task'[t].pc = "failed"
            /\ prev' = prev
            /\ ev' = ev
            /\ processed' = processed
            /\ renderPc' = renderPc
            /\ ctlPc' = ctlPc
            /\ diffClosed' = diffClosed
            /\ ~panicked']_vars
  /\ [](\A t \in DOMAIN task : task[t].err # "" => task[t].pc = "failed")
  /\ [](\A i \in DOMAIN processed :
          /\ task[processed[i].id].err = ""
          /\ processed[i].base = IF i = 1 THEN EmptyMap ELSE processed[i - 1].og)
  /\ []((Alive /\ ctlPc = "select" /\ tickPending
           /\ \E t \in DOMAIN task : task[t].pc = "failed") => ENABLED CtlDispatch)

\* the second of three fetches failed; the third event was diffed against the
\* first one's snapshot
MonitorFailedFetchSkippedWitness ==
  /\ Len(task) = 3
  /\ task[2].pc = "failed"
  /\ Len(processed) = 2
  /\ processed[1].id = 1
  /\ processed[2].id = 3
  /\ processed[2].base = processed[1].og
  /\ processed[1].og # EmptyMap
  /\ processed[2].og # processed[1].og

\* --------------------------------------------------------------------------
\* diffMaps, called on its own
\*
\* The arguments are any two maps with at most MaxKeys keys out of SnapKeys
\* and values out of SnapValues (the empty string among them); the nil map
\* is the map with no key.  diffMaps is called on (old, new), and then on the
\* same two maps in the other order.
\* --------------------------------------------------------------------------
SnapKeys == {T_title, T_image, T_type}

SnapValues == {"", "A", "B"}

Snapshots ==
  UNION {[K -> SnapValues] : K \in {S \in SUBSET SnapKeys : Cardinality(S) <= MaxKeys}}

DiffInit ==
  /\ InspectIdle
  /\ MonitorIdle
  /\ panicked = FALSE
  /\ \E a \in Snapshots, b \in Snapshots :
       call = [fn |-> "diffMaps", pc |-> "start", old |-> a, new |-> b,
               ret |-> EmptyMap, rev |-> EmptyMap]

\* diffMaps(old, new)
DiffCall ==
  /\ call.fn = "diffMaps"
  /\ call.pc = "start"
  /\ call' = [call EXCEPT !.ret = diffMaps(call.old, call.new), !.pc = "called"]
  /\ UNCHANGED <<inspectVars, monitorVars, panicked>>

\* diffMaps(new, old)
DiffCallSwapped ==
  /\ call.fn = "diffMaps"
  /\ call.pc = "called"
  /\ call' = [call EXCEPT !.rev = diffMaps(call.new, call.old), !.pc = "done"]
  /\ UNCHANGED <<inspectVars, monitorVars, panicked>>

DiffNext ==
  \/ DiffCall
  \/ DiffCallSwapped

DiffSpec == DiffInit /\ [][DiffNext]_vars

\* --------------------------------------------------------------------------
\* parseOG, called on its own
\*
\* The document is any sequence of at most MaxElems meta elements.  An
\* element has or lacks each of the attributes property, name and content; an
\* identifier has the prefix "og:", or is a tag name without it, or is "og"
\* alone; a content is empty or not.
\* --------------------------------------------------------------------------
PropertyOpts == {{}, {OGPrefix \o T_title}, {OGPrefix \o T_image}, {T_title}}

NameOpts == {{}, {OGPrefix \o T_title}, {<<"o", "g">>}}

ContentOpts == {{}, {""}, {"A"}, {"B"}}

\* the element with the attributes that are given (a singleton set each)
MetaElem(P, N, C) ==
  LET opt(a) == CASE a = "property" -> P [] a = "name" -> N [] OTHER -> C
      attrs == {a \in {"property", "name", "content"} : opt(a) # {}}
  IN  [a \in attrs |-> CHOOSE v \in opt(a) : TRUE]

MetaElems == {MetaElem(P, N, C) : P \in PropertyOpts, N \in NameOpts, C \in ContentOpts}

Documents == UNION {[1..n -> MetaElems] : n \in 0..MaxElems}

ParseInit ==
  /\ InspectIdle
  /\ MonitorIdle
  /\ panicked = FALSE
  /\ \E d \in Documents :
       call = [fn |-> "parseOG", pc |-> "start", html |-> d, ret |-> EmptyMap]

\* parseOG(html)
ParseCall ==
  /\ call.fn = "parseOG"
  /\ call.pc = "start"
  /\ call' = [call EXCEPT !.ret = parseOG(call.html), !.pc = "done"]
  /\ UNCHANGED <<inspectVars, monitorVars, panicked>>

ParseNext == ParseCall

ParseSpec == ParseInit /\ [][ParseNext]_vars

\* --------------------------------------------------------------------------
\* diffMaps, parseOG: properties
\* --------------------------------------------------------------------------
\* C14: the keys of diffMaps(A, B) are exactly the keys k of A or of B whose
\* values A[k] and B[k] differ, an absent key being read as ""; the entry of
\* each such key is the pair (A[k], B[k]).  A and B may be empty or nil.
DiffMapsKeysAndPairs ==
  (call.fn = "diffMaps" /\ call.pc # "start") =>
    LET A == call.old
        B == call.new
        a(k) == IF k \in DOMAIN A THEN A[k] ELSE ""
        b(k) == IF k \in DOMAIN B THEN B[k] ELSE ""
    IN  /\ DOMAIN call.ret \subseteq DOMAIN A \cup DOMAIN B
        /\ \A k \in DOMAIN A \cup DOMAIN B :
              /\ k \in DOMAIN call.ret <=> a(k) # b(k)
              /\ k \in DOMAIN call.ret => call.ret[k] = <<a(k), b(k)>>

\* one key changed, one key present and empty on one side only (no entry),
\* and the result is not empty
DiffMapsKeysAndPairsWitness ==
  /\ call.fn = "diffMaps"
  /\ call.pc = "called"
  /\ call.old = [k \in {T_title, T_image} |-> IF k = T_title THEN "A" ELSE ""]
  /\ call.new = [k \in {T_title, T_type} |-> IF k = T_title THEN "B" ELSE ""]
  /\ DOMAIN call.ret = {T_title}
  /\ call.ret[T_title] = <<"A", "B">>

\* C15: diffMaps(A, A) is empty, for every map A.
DiffMapsSameIsEmpty ==
  (call.fn = "diffMaps" /\ call.pc # "start" /\ call.old = call.new) =>
    DOMAIN call.ret = {}

\* diffMaps was called on a map with two keys and on the same map
DiffMapsSameWitness ==
  /\ call.fn = "diffMaps"
  /\ call.pc = "called"
  /\ call.old = call.new
  /\ Cardinality(DOMAIN call.old) = 2
  /\ \E k \in DOMAIN call.old : call.old[k] # ""
  /\ DOMAIN call.ret = {}

\* C16: diffMaps(B, A) has the key set of diffMaps(A, B), and for every key
\* the pair of diffMaps(A, B) with its two values exchanged.
DiffMapsSwapped ==
  (call.fn = "diffMaps" /\ call.pc = "done") =>
    /\ DOMAIN call.rev = DOMAIN call.ret
    /\ \A k \in DOMAIN call.ret :
          /\ call.rev[k][1] = call.ret[k][2]
          /\ call.rev[k][2] = call.ret[k][1]

\* both calls were made on two maps that differ in an added key and in a
\* changed key
DiffMapsSwappedWitness ==
  /\ call.fn = "diffMaps"
  /\ call.pc = "done"
  /\ DOMAIN call.old = {T_title}
  /\ DOMAIN call.new = {T_title, T_image}
  /\ DOMAIN call.ret = {T_title, T_image}
  /\ call.ret[T_image][1] = ""
  /\ call.rev[T_image][2] = ""
  /\ call.rev[T_title] # call.ret[T_title]

\* the identifier starts with "og:"
IsOG(id) == Len(id) >= 3 /\ id[1] = "o" /\ id[2] = "g" /\ id[3] = ":"

\* the keys an element contributes: none without a content attribute, else
\* its "og:" identifiers (property, name) without the prefix
KeysOf(e) ==
  IF "content" \notin DOMAIN e THEN {}
  ELSE {SubSeq(e[a], 4, Len(e[a])) : a \in {x \in {"property", "name"} \cap DOMAIN e : IsOG(e[x])}}

\* C17: the snapshot parseOG returns has exactly one key for each distinct
\* prefix-stripped name among the elements that carry a content attribute and
\* a property or name attribute starting with "og:", with the content of such
\* an element as its value; an element without content or without an "og:"
\* identifier contributes no key; the size of the snapshot is the number of
\* those distinct names.
ParseOGKeys ==
  (call.fn = "parseOG" /\ call.pc = "done") =>
    LET doc == call.html
        keys == UNION {KeysOf(doc[i]) : i \in DOMAIN doc}
    IN  /\ DOMAIN call.ret = keys
        /\ Cardinality(DOMAIN call.ret) = Cardinality(keys)
        /\ \A k \in DOMAIN call.ret :
              \E i \in DOMAIN doc : k \in KeysOf(doc[i]) /\ call.ret[k] = doc[i]["content"]
        /\ \A i \in DOMAIN doc :
              ("content" \notin DOMAIN doc[i]
                 \/ \A x \in {"property", "name"} \cap DOMAIN doc[i] : ~IsOG(doc[i][x])) =>
                \A k \in DOMAIN call.ret :
                  \E j \in DOMAIN doc : j # i /\ k \in KeysOf(doc[j])

\* an element with property og:image, name og:title and an empty content gives
\* two keys; an element with the property "title" gives none
ParseOGKeysWitness ==
  /\ call.fn = "parseOG"
  /\ call.pc = "done"
  /\ Len(call.html) = 2
  /\ call.html[1] = MetaElem({OGPrefix \o T_image}, {OGPrefix \o T_title}, {""})
  /\ call.html[2] = MetaElem({T_title}, {}, {"B"})
  /\ DOMAIN call.ret = {T_image, T_title}
  /\ call.ret[T_title] = ""

\* the last event the render loop has processed
LastProcessed == processed[Len(processed)]

\* C11 as it is stated: the change set of the first processed event has every
\* key of its snapshot, each as an added change with old "" and the snapshot's
\* value as new.
MonitorFirstCycleAllKeysAdded ==
  (processed # <<>> /\ processed[1].base = EmptyMap) =>
    /\ DOMAIN processed[1].diff = DOMAIN processed[1].og
    /\ \A k \in DOMAIN processed[1].og :
          processed[1].diff[k] = <<"", processed[1].og[k]>>

\* C11, amended: the change set of the first processed event, whose baseline
\* is empty, has exactly the keys of its snapshot that have a non-empty value,
\* each as an added change with old "" and the snapshot's value as new; a key
\* whose value is empty is not in the change set; and the change set is what
\* is rendered when it is not empty.
MonitorFirstCycleNonEmptyKeysAdded ==
  processed # <<>> =>
    /\ processed[1].base = EmptyMap
    /\ DOMAIN processed[1].diff = {k \in DOMAIN processed[1].og : processed[1].og[k] # ""}
    /\ \A k \in DOMAIN processed[1].diff :
          processed[1].diff[k] = <<"", processed[1].og[k]>>
    /\ \A k \in DOMAIN processed[1].og :
          processed[1].og[k] = "" => k \notin DOMAIN processed[1].diff
    /\ (DOMAIN processed[1].diff # {}) =>
          \E i \in DOMAIN rendered : /\ rendered[i].kind = mode
                                      /\ rendered[i].diff = processed[1].diff

\* the first event carries a snapshot with a title and a type whose value is
\* empty: the change set has the title only
MonitorFirstCycleWitness ==
  /\ Len(processed) = 1
  /\ renderPc = "recv"
  /\ processed[1].og = parseOG(DocE)
  /\ DOMAIN processed[1].og = {T_title, T_type}
  /\ DOMAIN processed[1].diff = {T_title}
  /\ processed[1].diff[T_title] = <<"", "A">>
  /\ Len(rendered) = 1

\* C12: when the render loop processes an event whose snapshot equals the
\* snapshot of the event processed just before it, the change set is empty and
\* nothing is rendered in that step, whatever the output mode.
MonitorSteadyStateSilent ==
  [][(renderPc = "process" /\ renderPc' = "recv" /\ processed # <<>>
        /\ ev.og = LastProcessed.og) =>
       /\ rendered' = rendered
       /\ DOMAIN processed'[Len(processed')].diff = {}
       /\ processed'[Len(processed')].id = ev.id]_vars

\* two events with the same non-empty snapshot were processed, no fetch
\* failed, and only the first was rendered
MonitorSteadyStateWitness ==
  /\ Len(processed) = 2
  /\ renderPc = "recv"
  /\ processed[1].og # EmptyMap
  /\ processed[2].og = processed[1].og
  /\ \A t \in DOMAIN task : task[t].err = ""
  /\ Len(rendered) = 1
  /\ rendered[1].diff = processed[1].diff
  /\ mode = "unified"

\* C13: the render loop processes one event at a time: while it processes an
\* event no other event is received, and the step that ends the processing
\* records that event and makes its snapshot the baseline; every event is
\* processed once, and is diffed against the snapshot of the event processed
\* just before it (the empty snapshot for the first); between two events the
\* baseline is the snapshot of the last processed event, also when that
\* event's change set was empty.
MonitorRenderOneAtATime ==
  /\ [][renderPc = "process" =>
          \/ (ev' = ev /\ processed' = processed /\ prev' = prev /\ renderPc' = renderPc)
          \/ /\ renderPc' = "recv"
             /\ ev' = NoEvent
             /\ Len(processed') = Len(processed) + 1
             /\ processed'[Len(processed')].id = ev.id
             /\ processed'[Len(processed')].og = ev.og
             /\ processed'[Len(processed')].base = prev
             /\ prev' = ev.og]_vars
  /\ [][renderPc # "process" => (processed' = processed /\ prev' = prev)]_vars
  /\ [](\A i, j \in DOMAIN processed : processed[i].id = processed[j].id => i = j)
  /\ [](\A i \in DOMAIN processed :
          /\ processed[i].base = IF i = 1 THEN EmptyMap ELSE processed[i - 1].og
          /\ processed[i].diff = diffMaps(processed[i].base, processed[i].og))
  /\ [](renderPc # "process" =>
          /\ ev = NoEvent
          /\ prev = IF processed = <<>> THEN EmptyMap ELSE LastProcessed.og)

\* three events: the second has an empty change set although its snapshot
\* differs from the first (one more key, with an empty value); the third was
\* diffed against the second's snapshot
MonitorRenderOneAtATimeWitness ==
  /\ Len(processed) = 3
  /\ renderPc = "recv"
  /\ DOMAIN processed[2].diff = {}
  /\ processed[2].og # processed[1].og
  /\ processed[3].base = processed[2].og
  /\ processed[3].og # processed[2].og
  /\ prev = processed[3].og

\* C20: events can be applied out of dispatch order: when the event of a
\* later-dispatched fetch is processed before the event of an earlier one, the
\* earlier fetch's snapshot is diffed against the later one's, and it is the
\* baseline once it has been processed.
MonitorOutOfOrderApplied ==
  \A i \in DOMAIN processed :
    (i > 1 /\ processed[i].id < processed[i - 1].id) =>
      /\ processed[i].base = task[processed[i - 1].id].og
      /\ processed[i].diff = diffMaps(task[processed[i - 1].id].og, task[processed[i].id].og)
      /\ (i = Len(processed) /\ renderPc # "process") => prev = task[processed[i].id].og

\* the second tick fired while the first fetch was in flight, both fetches
\* succeeded with different snapshots, and the second one's event was
\* processed first: the first fetch's snapshot is the final baseline
MonitorOutOfOrderWitness ==
  /\ ticks = 2
  /\ Len(task) = 2
  /\ task[1].pc = "done" /\ task[2].pc = "done"
  /\ task[1].og = parseOG(DocA)
  /\ task[2].og = parseOG(DocB)
  /\ Len(processed) = 2
  /\ processed[1].id = 2
  /\ processed[2].id = 1
  /\ processed[2].base = parseOG(DocB)
  /\ DOMAIN processed[2].diff = {T_title, T_image}
  /\ prev = parseOG(DocA)
  /\ renderPc = "recv"

\* --------------------------------------------------------------------------
\* inspect: the zero-URL check
\* --------------------------------------------------------------------------
\* the submission yields no URL: every argument is "-" and every line of
\* STDIN is empty or blank
NoUrlSubmitted ==
  /\ args # <<>>
  /\ \A i \in DOMAIN args : args[i] = "-"
  /\ \A i \in DOMAIN stdin : \A j \in DOMAIN stdin[i] : stdin[i][j] = " "

\* C18: a submission that yields zero URLs is rejected with an error before
\* any channel is created, any worker, feeder or closer is started, and any
\* fetch is made: RunE goes from its start straight to a returned error, and
\* no part of the pool ever exists or acts.
InspectZeroUrlsRejected ==
  NoUrlSubmitted =>
    /\ mainPc \in {"start", "returned"}
    /\ mainPc = "start" => outcome = ""
    /\ mainPc = "returned" => outcome \in {"no URLs", "stdin error"}
    /\ urls = <<>>
    /\ wpc = <<>> /\ wres = <<>> /\ wg = 0
    /\ fed = 0 /\ ~tasksClosed /\ ~resultsClosed
    /\ received = <<>> /\ out = <<>> /\ exitCode = 0
    /\ ~panicked

\* "-" alone with a blank line and an empty line on STDIN: rejected for
\* having no URLs
InspectZeroUrlsRejectedWitness ==
  /\ args = <<"-">>
  /\ stdin = << <<" ">>, <<>> >>
  /\ mainPc = "returned"
  /\ outcome = "no URLs"
  /\ wpc = <<>>
  /\ received = <<>>

\* --------------------------------------------------------------------------
\* validate: RunE of newValidateCmd
\*
\* The page served has any subset of the essential tags with a value, the
\* other essential tags absent or present with an empty value, and none or all
\* of the further recommended tags, one of them possibly empty.  The value of
\* og:image is a URL, or the same URL after a space, which url.Parse rejects
\* (without a scheme its first path segment contains a colon).
\* --------------------------------------------------------------------------
GoodImageURL == "https://img"

BadImageURL == " https://img"

\* url.Parse, as http.NewRequestWithContext calls it, on the image values above
urlParses(u) == u # BadImageURL

EssentialSet == {essentialTags[i] : i \in DOMAIN essentialTags}

FurtherSet == {recommendedTags[i] : i \in DOMAIN recommendedTags} \ EssentialSet

\* the page with one <meta property="og:k" content=vals[k]> for each key of vals
PageOf(vals) ==
  LET present == SelectSeq(recommendedTags, LAMBDA k : k \in DOMAIN vals)
  IN  [i \in DOMAIN present |-> [property |-> OGPrefix \o present[i], content |-> vals[present[i]]]]

TagValue(k, badImage) ==
  IF k = T_image THEN (IF badImage THEN BadImageURL ELSE GoodImageURL)
  ELSE IF k = T_type THEN "article"
  ELSE "v"

ValidateTagValues ==
  {[k \in (IF emptyOthers THEN EssentialSet ELSE E) \cup further |->
      IF k \in E THEN TagValue(k, badImage)
      ELSE IF k \in EssentialSet \/ k = emptyOne THEN "" ELSE "v"] :
     E \in SUBSET EssentialSet, emptyOthers \in BOOLEAN, badImage \in BOOLEAN,
     further \in {{}, FurtherSet}, emptyOne \in {T_title, T_locale}}

ValidatePages == {PageOf(vals) : vals \in ValidateTagValues}

ValidateInit ==
  /\ InspectIdle
  /\ MonitorIdle
  /\ panicked = FALSE
  /\ \E e \in BOOLEAN, sem \in BOOLEAN :
       call = [fn |-> "validate", pc |-> "fetch", essentialsOnly |-> e, semantic |-> sem,
               og |-> EmptyMap, warns |-> <<>>, outcome |-> ""]

\* fetchHTML fails: RunE returns its error
ValidateFetchErr(e) ==
  /\ ~panicked
  /\ call.fn = "validate"
  /\ call.pc = "fetch"
  /\ e \in FetchErrors
  /\ call' = [call EXCEPT !.outcome = e, !.pc = "returned"]
  /\ UNCHANGED <<inspectVars, monitorVars, panicked>>

\* fetchHTML succeeds: og := parseOG(html)
ValidateFetchOk(html) ==
  /\ ~panicked
  /\ call.fn = "validate"
  /\ call.pc = "fetch"
  /\ html \in ValidatePages
  /\ call' = [call EXCEPT !.og = parseOG(html),
                          !.pc = IF call.semantic THEN "semantic" ELSE "check"]
  /\ UNCHANGED <<inspectVars, monitorVars, panicked>>

\* the warnings of semanticValidate about the article tags
articleWarns(og) ==
  IF MapGet(og, T_type) = "article"
  THEN (IF MapGet(og, T_article_author) = "" THEN <<"article:author is missing">> ELSE <<>>)
       \o (IF MapGet(og, T_article_section) = "" THEN <<"article:section is missing">> ELSE <<>>)
  ELSE <<>>

\* semanticValidate(og) and the printing of its warnings.  With an og:image,
\* checkImage builds its request with the error of NewRequestWithContext
\* dropped: for a URL that does not parse the request is nil and
\* http.DefaultClient.Do(nil) dereferences it, which ends the process.
\* Otherwise checkImage returns an error (imageErr # "") or nil, as the network
\* and the image decide; a URL that parses here starts with "https://", so the
\* HTTPS warning is not given.
ValidateSemantic(imageErr) ==
  /\ ~panicked
  /\ call.fn = "validate"
  /\ call.pc = "semantic"
  /\ imageErr \in {"", "cannot HEAD og:image"}
  /\ IF MapGet(call.og, T_image) # ""
     THEN IF urlParses(call.og[T_image])
          THEN /\ call' = [call EXCEPT
                             !.warns = (IF imageErr # "" THEN <<imageErr>> ELSE <<>>)
                                         \o articleWarns(call.og),
                             !.pc = "check"]
               /\ UNCHANGED panicked
          ELSE /\ panicked' = TRUE
               /\ UNCHANGED call
     ELSE /\ imageErr = ""
          /\ call' = [call EXCEPT !.warns = articleWarns(call.og), !.pc = "check"]
          /\ UNCHANGED panicked
  /\ UNCHANGED <<inspectVars, monitorVars>>

\* printMissing(og, essentialsOnly), and the error or nil RunE returns
ValidateCheck ==
  /\ ~panicked
  /\ call.fn = "validate"
  /\ call.pc = "check"
  /\ call' = [call EXCEPT
                !.outcome = IF printMissing(call.og, call.essentialsOnly) # 0
                            THEN "required tags are missing"
                            ELSE "ok",
                !.pc = "returned"]
  /\ UNCHANGED <<inspectVars, monitorVars, panicked>>

ValidateNext ==
  \/ \E e \in FetchErrors : ValidateFetchErr(e)
  \/ \E html \in ValidatePages : ValidateFetchOk(html)
  \/ \E imageErr \in {"", "cannot HEAD og:image"} : ValidateSemantic(imageErr)
  \/ ValidateCheck

ValidateSpec == ValidateInit /\ [][ValidateNext]_vars

\* --------------------------------------------------------------------------
\* validate: properties
\* --------------------------------------------------------------------------
\* validate has fetched the page and holds its snapshot
ValidateHasSnapshot == call.fn = "validate" /\ call.pc \in {"semantic", "check", "returned"}
                         /\ call.outcome \notin FetchErrors

\* a tag of the required set is absent from the snapshot or has an empty value
RequiredTagMissing ==
  LET required == IF call.essentialsOnly
                  THEN {T_title, T_type, T_image, T_url, T_description}
                  ELSE {T_title, T_type, T_image, T_url, T_description, T_site_name,
                        T_locale, T_video, T_audio, T_article_author,
                        T_article_publisher, T_article_section, T_article_tag}
  IN  \E k \in required : k \notin DOMAIN call.og \/ call.og[k] = ""

\* C19: for every snapshot, validate ends in a returned result and never in a
\* crash, and the result is the failure exactly when a tag of the required set
\* (the essential tags with essentials-only, otherwise the recommended tags,
\* which include them) is absent from the snapshot or has an empty value.
ValidateFailsIffRequiredMissing ==
  ValidateHasSnapshot =>
    /\ ~panicked
    /\ call.pc = "returned" =>
         (call.outcome = "required tags are missing" <=> RequiredTagMissing)

\* --------------------------------------------------------------------------
\* monitor: events, baseline, liveness
\* --------------------------------------------------------------------------
\* the events of fetch task t that the render loop holds or has processed
Delivered(t) ==
  Cardinality({i \in DOMAIN processed : processed[i].id = t})
    + (IF ev # NoEvent /\ ev.id = t THEN 1 ELSE 0)

\* task t fetched its page and can take no further step
SucceededAndOver(t) ==
  /\ task[t].err = ""
  /\ task[t].pc \in {"send", "done"}
  /\ (task[t].pc = "done" \/ ~Alive)

\* C21: every successful fetch delivers exactly one event, and every
\* delivered event is processed by the render loop exactly once: no fetch
\* task has two events, a successful fetch task that is over has one, an event
\* the render loop holds when the run is over has been processed, every
\* processed event comes from a successful fetch, and no event is rendered
\* twice.
MonitorEventsExactlyOnce ==
  /\ \A t \in DOMAIN task :
        /\ Delivered(t) <= 1
        /\ SucceededAndOver(t) => Delivered(t) = 1
        /\ Delivered(t) = 1 => (task[t].err = "" /\ task[t].pc = "done")
  /\ ~Alive => ev = NoEvent
  /\ \A i \in DOMAIN processed : processed[i].id \in DOMAIN task
  /\ Cardinality({i \in DOMAIN rendered : rendered[i].kind # "error"}) <= Len(processed)

\* C25: the baseline is written only by the render loop, in the step that
\* ends the processing of an event, and is read only there: every diff is
\* computed against the render loop's baseline, and what the control loop
\* hands to a fetch task at dispatch is its own variable, always nil, whatever
\* the baseline is, and is never what a diff is computed against.
MonitorBaselineOwnedByRenderLoop ==
  /\ [][prev' # prev =>
          (renderPc = "process" /\ renderPc' = "recv" /\ prev' = ev.og)]_vars
  /\ [][Len(task') > Len(task) =>
          (task'[Len(task')].p = EmptyMap /\ prev' = prev)]_vars
  /\ [][\A t \in DOMAIN task : task'[t].p = task[t].p]_vars
  /\ [][Len(processed') > Len(processed) =>
          /\ processed'[Len(processed')].base = prev
          /\ processed'[Len(processed')].diff = diffMaps(prev, ev.og)]_vars

\* the second fetch was dispatched with nil and its event was diffed against
\* the first event's snapshot, which is not empty
MonitorBaselineOwnedWitness ==
  /\ Len(processed) = 2
  /\ processed[1].id = 1
  /\ processed[2].id = 2
  /\ processed[1].og # EmptyMap
  /\ processed[2].base = processed[1].og
  /\ task[2].p = EmptyMap
  /\ processed[2].diff # diffMaps(task[2].p, processed[2].og)

\* any of the commands, or a call of diffMaps on its own
ProgramInit == InspectInit \/ MonitorInit \/ DiffInit

ProgramNext == InspectNext \/ MonitorNext \/ DiffNext

ProgramSpec == ProgramInit /\ [][ProgramNext]_vars

\* C27: a snapshot is never modified after its creation.  diffMaps leaves
\* both of its arguments as they were.  In monitor, once a fetch task has
\* built a snapshot it stays as it is while the event is sent, diffed,
\* rendered and kept as the baseline; the snapshot of a processed event stays
\* as it was, and replacing the baseline leaves the snapshot that was the
\* baseline as it was.  In inspect, the snapshot a worker holds stays as it is
\* until it is sent, a received result stays as it was, and what the
\* aggregator reports or collects for a URL is a snapshot it received for it.
SnapshotsImmutable ==
  /\ [][call.fn = "diffMaps" => (call'.old = call.old /\ call'.new = call.new)]_vars
  /\ [][\A w \in DOMAIN wpc :
          (wpc[w] = "send" /\ wpc'[w] = "send") => wres'[w] = wres[w]]_vars
  /\ [][\A i \in DOMAIN received : received'[i] = received[i]]_vars
  /\ [](\A i \in DOMAIN out :
          out[i].kind = "table" =>
            \E j \in DOMAIN received : /\ received[j].url = out[i].url
                                        /\ received[j].err = ""
                                        /\ received[j].og = out[i].og)
  /\ [](\A u \in DOMAIN aggregated :
          \E j \in DOMAIN received : /\ received[j].url = u
                                      /\ received[j].err = ""
                                      /\ received[j].og = aggregated[u])
  /\ [][\A t \in DOMAIN task :
          task[t].pc \in {"send", "done"} => task'[t].og = task[t].og]_vars
  /\ [][\A i \in DOMAIN processed : processed'[i] = processed[i]]_vars
  /\ [](ev # NoEvent => ev.og = task[ev.id].og)
  /\ [](\A i \in DOMAIN processed : processed[i].og = task[processed[i].id].og)
  /\ [](renderPc # "process" =>
          prev = IF processed = <<>> THEN EmptyMap ELSE task[LastProcessed.id].og)

\* two events with different snapshots were processed: the first fetch
\* task's snapshot is what it was, and the baseline is the second one's
SnapshotsImmutableWitness ==
  /\ Len(processed) = 2
  /\ renderPc = "recv"
  /\ processed[1].og = parseOG(DocB)
  /\ processed[2].og = parseOG(DocA)
  /\ task[processed[1].id].og = parseOG(DocB)
  /\ prev = parseOG(DocA)
  /\ Len(rendered) = 2

\* C29: without cancellation and under fair scheduling, every fetch that
\* succeeds has its event received and applied by the render loop: a fetch
\* task at its send is eventually among the processed events, unless
\* cancellation is signalled.
MonitorSuccessfulFetchApplied ==
  \A t \in 1..MaxTicks :
    []((t \in DOMAIN task /\ task[t].pc = "send") =>
         <>(ctxDone \/ \E i \in DOMAIN processed : processed[i].id = t))

\* three fetches were in flight at once (the first dispatched was applied
\* last), no cancellation, and all three events were applied
MonitorSuccessfulFetchAppliedWitness ==
  /\ ~ctxDone
  /\ Len(task) = 3
  /\ \A t \in DOMAIN task : task[t].pc = "done"
  /\ Len(processed) = 3
  /\ processed[1].id = 3
  /\ processed[3].id = 1
  /\ renderPc = "recv"

\* --------------------------------------------------------------------------
\* inspect: the pool
\* --------------------------------------------------------------------------
\* the pool has been set up
PoolStarted == mainPc \in {"recv", "finish", "returned"} /\ Len(urls) > 0

\* worker w holds a URL: it fetches it, or it has its result to send
Holding(w) == wpc[w] \in {"fetch", "send"}

\* C22: the number W of workers started satisfies 1 <= W <= L for every
\* requested value and every L >= 1: a positive request is capped at L, a
\* non-positive one is replaced by the available parallelism and then capped
\* at L; W workers are started and counted in the WaitGroup.
InspectWorkerCountInRange ==
  /\ [][(mainPc = "start" /\ mainPc' = "recv") =>
          LET L == Len(urls')
              cap(n) == IF n > L THEN L ELSE n
          IN  /\ L >= 1
              /\ 1 <= workers' /\ workers' <= L
              /\ workers >= 1 => workers' = cap(workers)
              /\ workers <= 0 => \E n \in 1..MaxCPU : workers' = cap(n)
              /\ Len(wpc') = workers'
              /\ wg' = workers']_vars
  /\ [](PoolStarted => (1 <= workers /\ workers <= Len(urls) /\ Len(wpc) = workers))

\* the pool stands with as many workers as URLs, more than the machine has
\* processors: the request was above the number of URLs or equal to it
InspectWorkerCountWitness ==
  /\ mainPc = "recv"
  /\ Len(urls) = 3
  /\ workers = 3
  /\ workers > MaxCPU
  /\ fed = 0

\* C23: at most W fetches are in flight, and a worker holds at most one URL
\* at a time: the URLs handed out and not yet answered are as many as the
\* workers that hold one, and a URL is handed only to a worker at its receive,
\* which holds nothing, having sent the result of the URL it held before.
InspectOneUrlPerWorker ==
  /\ [](PoolStarted =>
          /\ Cardinality({w \in DOMAIN wpc : wpc[w] = "fetch"}) <= workers
          /\ fed - Len(received) = Cardinality({w \in DOMAIN wpc : Holding(w)})
          /\ \A w \in DOMAIN wpc : Holding(w) <=> wres[w] # NoResult)
  /\ [][fed' # fed =>
          /\ fed' = fed + 1
          /\ \E w \in DOMAIN wpc :
                /\ wpc[w] = "recv" /\ wres[w] = NoResult
                /\ wpc'[w] = "fetch" /\ wres'[w].url = urls[fed + 1]
                /\ \A x \in DOMAIN wpc \ {w} : wpc'[x] = wpc[x] /\ wres'[x] = wres[x]]_vars

\* two workers fetch at once, and one of them has sent a result before
InspectOneUrlPerWorkerWitness ==
  /\ mainPc = "recv"
  /\ Len(wpc) = 2
  /\ wpc[1] = "fetch" /\ wpc[2] = "fetch"
  /\ Len(received) = 1
  /\ fed = 3

\* C24: the task channel is closed once, and only after the last URL has
\* been handed to a worker; no URL is handed out after it is closed; a worker
\* returns only when the task channel is closed, from its receive, with no
\* result left to send.
InspectTasksClosedAfterFeed ==
  /\ [][tasksClosed' # tasksClosed =>
          (~tasksClosed /\ tasksClosed' /\ fed = Len(urls) /\ fed' = fed)]_vars
  /\ [][tasksClosed => (tasksClosed' /\ fed' = fed)]_vars
  /\ [][\A w \in DOMAIN wpc :
          (wpc[w] # "done" /\ wpc'[w] = "done") =>
            (tasksClosed /\ wpc[w] = "recv" /\ wres[w] = NoResult)]_vars
  /\ [](\A w \in DOMAIN wpc : wpc[w] = "done" => (tasksClosed /\ wres[w] = NoResult))

\* the task channel is closed after three URLs; one worker has returned, the
\* other still fetches
InspectTasksClosedWitness ==
  /\ tasksClosed
  /\ Len(urls) = 3
  /\ fed = 3
  /\ workers = 2
  /\ \E w \in DOMAIN wpc : wpc[w] = "done"
  /\ \E w \in DOMAIN wpc : wpc[w] = "fetch"

\* C28: the result channel is closed once, and only after all W workers have
\* returned; no worker sends on the closed channel, in any interleaving; the
\* aggregator's loop ends only when the channel is closed, every worker has
\* returned, and every result has been received.
InspectResultsClosedAfterWorkers ==
  /\ [][resultsClosed' # resultsClosed =>
          /\ ~resultsClosed /\ resultsClosed'
          /\ wg = 0
          /\ \A w \in DOMAIN wpc : wpc[w] = "done"]_vars
  /\ [][resultsClosed => (resultsClosed' /\ received' = received /\ wpc' = wpc)]_vars
  /\ [](mainPc # "idle" => ~panicked)
  /\ [](resultsClosed => \A w \in DOMAIN wpc : wpc[w] = "done" /\ wres[w] = NoResult)
  /\ [](LoopEnded => (resultsClosed /\ Len(received) = fed /\ fed = Len(urls)))

\* the loop has ended on the closed channel after two workers sent three
\* results
InspectResultsClosedWitness ==
  /\ mainPc = "finish"
  /\ resultsClosed
  /\ workers = 2
  /\ Len(received) = 3
  /\ wg = 0

\* C30: with a single worker the results reach the aggregator in the
\* submission order of the URLs; with two workers or more the order can
\* differ (the witness).
InspectSingleWorkerKeepsOrder ==
  (PoolStarted /\ workers = 1) =>
    /\ Len(received) <= Len(urls)
    /\ \A i \in DOMAIN received : received[i].url = urls[i]

\* two workers, two different URLs: the result of the second URL was
\* received first
InspectOrderDiffersWitness ==
  /\ workers = 2
  /\ Len(urls) = 2
  /\ urls[1] # urls[2]
  /\ Len(received) = 2
  /\ received[1].url = urls[2]
  /\ received[2].url = urls[1]

\* --------------------------------------------------------------------------
\* parseOG: duplicates
\* --------------------------------------------------------------------------
\* C26: when several qualifying elements give the same key, the value stored
\* is the content of the last of them in document order; an element with a
\* content, an "og:" property and an "og:" name gives both keys, each with
\* its content unless a later element gives the key again.
ParseOGLastWins ==
  (call.fn = "parseOG" /\ call.pc = "done") =>
    LET doc == call.html
        givers(k) == {i \in DOMAIN doc : k \in KeysOf(doc[i])}
        last(k) == CHOOSE i \in givers(k) : \A j \in givers(k) : j <= i
    IN  /\ \A k \in DOMAIN call.ret :
              givers(k) # {} /\ call.ret[k] = doc[last(k)]["content"]
        /\ \A i \in DOMAIN doc :
              ({"property", "name", "content"} \subseteq DOMAIN doc[i]
                 /\ IsOG(doc[i]["property"]) /\ IsOG(doc[i]["name"])) =>
                \A id \in {doc[i]["property"], doc[i]["name"]} :
                  LET k == SubSeq(id, 4, Len(id))
                  IN  /\ k \in DOMAIN call.ret
                      /\ (\A j \in givers(k) : j <= i) => call.ret[k] = doc[i]["content"]

\* og:title is given by the first element ("A") and again by the name of the
\* second, which also has the property og:image: both keys hold "B"
ParseOGLastWinsWitness ==
  /\ call.fn = "parseOG"
  /\ call.pc = "done"
  /\ Len(call.html) = 2
  /\ call.html[1] = MetaElem({OGPrefix \o T_title}, {}, {"A"})
  /\ call.html[2] = MetaElem({OGPrefix \o T_image}, {OGPrefix \o T_title}, {"B"})
  /\ DOMAIN call.ret = {T_title, T_image}
  /\ call.ret[T_title] = "B"
  /\ call.ret[T_image] = "B"

====
